---- MODULE Spec2Model ----
(***************************************************************************)
(* Model of the train simulation engine (src/src/model.py) and of the two  *)
(* loops that drive and read it (src/src/main.py).                         *)
(*                                                                         *)
(* Coordinates are <<x, y>> with x the column and y the row, both counted  *)
(* from 0 as in the Python code (self._matrix[y][x]).                      *)
(***************************************************************************)
EXTENDS Integers, Sequences, FiniteSets, TLC

VARIABLES
    trains,           \* the Train objects, in dict insertion order
    train_positions,  \* train_positions[i]: body of train i, head first
    sensor_states,    \* Model.sensor_states: sensor coordinate -> BOOLEAN
    is_accelerating,  \* Model.is_accelerating, the global control flag
    pc,               \* position of the simulation loop inside tick()
    cur,              \* index of the train _move_train_tick is working on
    left,             \* iterations left of range(get_rounded_speed())
    ticks,            \* number of tick() calls started so far
    last,             \* what the latest step of the simulation loop did
    frame,            \* what the render loop saw when it last drew
    begin,            \* the trains and bodies as the current tick() found them
    log,              \* what the current tick() has done so far
    sc                \* the engine that skips the moves of CRASHED trains

\* begin and log record the run; sc is the second engine run beside it
history == <<begin, log, sc>>

vars == <<trains, train_positions, sensor_states, is_accelerating,
          pc, cur, left, ticks, last, frame, begin, log, sc>>

----------------------------------------------------------------------------
(* Bounds of the model.                                                    *)

\* tick() calls explored from construction
MaxTicks == 12

\* accelerate_tick() calls explored on a Train on its own
MaxTrainTicks == 26

\* ticks at the start of the acceleration scenario in which the flag is true
ScenarioAccelTicks == 5

----------------------------------------------------------------------------
(* Train constants (class attributes of Train).                            *)

\* Speeds are counted in tenths of a cell per tick
Tenths == 10

DEACCELERATION == 1

ACCELERATION == 2

MAX_SPEED == 5

LENGTH == 5

----------------------------------------------------------------------------
(* Direction geometry (core.data.Direction / DirectionUtils).              *)

Direction == {"UP", "DOWN", "LEFT", "RIGHT"}

DIR_TO_COORDINATE(d) ==
    CASE d = "UP"    -> <<0, -1>>
      [] d = "DOWN"  -> <<0, 1>>
      [] d = "LEFT"  -> <<-1, 0>>
      [] d = "RIGHT" -> <<1, 0>>

COORDINATE_TO_DIR(c) ==
    CASE c = <<0, -1>> -> "UP"
      [] c = <<0, 1>>  -> "DOWN"
      [] c = <<-1, 0>> -> "LEFT"
      [] c = <<1, 0>>  -> "RIGHT"

ALLOWED_TURNS(d) ==
    IF d \in {"UP", "DOWN"} THEN <<"LEFT", "RIGHT">> ELSE <<"UP", "DOWN">>

----------------------------------------------------------------------------
(* Track grid (core.map_parser.MapParser.build_map, core.data.Cell).       *)
(*                                                                         *)
(*        x: 0 1 2 3 4 5                                                   *)
(*   y = 0:  . T T S T T      T track, S sensor, . empty,                  *)
(*   y = 1:  . T . T R .      L switch-left, R switch-right                *)
(*   y = 2:  . L S T T .                                                   *)
(*   y = 3:  . T . . . .                                                   *)

CellType == {"EMPTY", "TRACK", "SWITCH_LEFT", "SWITCH_RIGHT", "SENSOR"}

MapRows ==
    << <<"EMPTY", "TRACK",       "TRACK",  "SENSOR", "TRACK",       "TRACK">>,
       <<"EMPTY", "TRACK",       "EMPTY",  "TRACK", "SWITCH_RIGHT", "EMPTY">>,
       <<"EMPTY", "SWITCH_LEFT", "SENSOR", "TRACK", "TRACK",        "EMPTY">>,
       <<"EMPTY", "TRACK",       "EMPTY",  "EMPTY", "EMPTY",        "EMPTY">> >>

\* len(self._matrix)
Height == Len(MapRows)

\* len(self._matrix[0])
Width == Len(MapRows[1])

\* Cell._allowed_turns of the cell at column x, row y
CellAllowedTurns(x, y) ==
    IF MapRows[y + 1][x + 1] = "SWITCH_LEFT"
    THEN {"UP", "LEFT", "RIGHT"}
    ELSE Direction

\* self._matrix[y][x] for indices inside the grid
matrix(x, y) ==
    [cell_type      |-> MapRows[y + 1][x + 1],
     allowed_turns  |-> CellAllowedTurns(x, y)]

Coordinates == {<<x, y>> : x \in 0..(Width - 1), y \in 0..(Height - 1)}

----------------------------------------------------------------------------
(* Train._speed is a Python float.  A speed is held here exactly, as the   *)
(* pair [t, d] standing for the real number                                *)
(*     t / 10  +  d / (10 * 2^56),                                         *)
(* t being the speed in tenths and d the deviation the binary64 roundings  *)
(* have accumulated.  Every speed the code computes is a multiple of       *)
(* 2^-56, and 2^56 / 10 = Q + 6/10 with Q = (2^55 - 3) / 5, Q % 128 = 25,  *)
(* so the multiple m = t * Q + (6 * t + d) / 10 is known modulo 128.       *)

\* the binary64 nearest to k tenths, for the increments 0.1 and 0.2
DoubleOfTenths(k) == [t |-> k, d |-> 4 * k]

\* s >= k / 10
SpeedAtLeast(s, k) == s.t > k \/ (s.t = k /\ s.d >= 0)

\* s > k / 10
SpeedAbove(s, k) == s.t > k \/ (s.t = k /\ s.d > 0)

\* spacing of binary64 numbers around s, in units of 2^-56
Ulp(s) ==
    IF SpeedAtLeast(s, 40) THEN 64
    ELSE IF SpeedAtLeast(s, 20) THEN 32
    ELSE IF SpeedAtLeast(s, 10) THEN 16
    ELSE IF SpeedAtLeast(s, 5) THEN 8
    ELSE IF s.t >= 3 THEN 4
    ELSE IF s.t >= 2 THEN 2
    ELSE 1

\* round-to-nearest, ties-to-even, of the exact sum s to a binary64
RoundToDouble(s) ==
    LET u == Ulp(s)
        m == (s.t * 25 + ((6 * s.t + s.d) \div 10)) % (2 * u)
        r == m % u
        adj == IF r = 0 THEN 0
               ELSE IF 2 * r < u THEN 0 - r
               ELSE IF 2 * r > u THEN u - r
               ELSE IF m - r = 0 THEN 0 - r ELSE u - r
    IN  [t |-> s.t, d |-> s.d + 10 * adj]

\* a + b and a - b on floats
FloatAdd(a, b) == RoundToDouble([t |-> a.t + b.t, d |-> a.d + b.d])

FloatSub(a, b) == RoundToDouble([t |-> a.t - b.t, d |-> a.d - b.d])

\* max(min(speed, _MAX_SPEED), 0)
Clamp(s) ==
    LET top == IF SpeedAbove(s, MAX_SPEED * Tenths)
               THEN [t |-> MAX_SPEED * Tenths, d |-> 0] ELSE s
    IN  IF SpeedAtLeast(top, 0) THEN top ELSE [t |-> 0, d |-> 0]

\* accelerate_tick with the clamp's min(..., _MAX_SPEED) left out
accelerate_tick_no_min(train) ==
    LET s == IF train.is_accelerating
             THEN FloatAdd(train.speed, DoubleOfTenths(ACCELERATION))
             ELSE FloatSub(train.speed, DoubleOfTenths(DEACCELERATION))
    IN  [train EXCEPT !.speed =
            IF SpeedAtLeast(s, 0) THEN s ELSE [t |-> 0, d |-> 0]]

\* Train.accelerate_tick
accelerate_tick(train) ==
    LET s == IF train.is_accelerating
             THEN FloatAdd(train.speed, DoubleOfTenths(ACCELERATION))
             ELSE FloatSub(train.speed, DoubleOfTenths(DEACCELERATION))
    IN  [train EXCEPT !.speed = Clamp(s)]

\* get_rounded_speed returning round(self._speed) instead of int(self._speed)
get_rounded_speed_nearest(train) ==
    (train.speed.t + (Tenths \div 2)) \div Tenths

\* get_rounded_speed returning math.ceil(self._speed)
get_rounded_speed_up(train) ==
    IF train.speed.t % Tenths = 0 /\ train.speed.d <= 0
    THEN train.speed.t \div Tenths
    ELSE (train.speed.t \div Tenths) + 1

\* Train.get_rounded_speed: int(self._speed), for a speed >= 0
get_rounded_speed(train) ==
    LET s == train.speed
    IN  IF s.d >= 0 \/ s.t % Tenths # 0
        THEN s.t \div Tenths
        ELSE (s.t \div Tenths) - 1

\* Train(direction): the class attributes give the other fields
NewTrain(direction) ==
    [direction       |-> direction,
     state           |-> "OK",
     is_accelerating |-> FALSE,
     speed           |-> [t |-> 0, d |-> 0]]

----------------------------------------------------------------------------
(* Model: helpers.                                                         *)

\* the cell types a train may enter (the list tested in _move_train_one_cell)
Traversable == {"TRACK", "SWITCH_LEFT", "SWITCH_RIGHT", "SENSOR"}

\* neither bounds test of _move_train_one_cell rejects column x, row y
InGrid(x, y) ==
    /\ ~(x < 0 \/ x >= Width)
    /\ ~(y < 0 \/ y >= Height)

\* ArrayUtils.push_first: put the element in front and drop the last one
push_first(list, element) ==
    <<element>> \o SubSeq(list, 1, Len(list) - 1)

\* dirs_to_try with the turns listed before the current direction
dirs_to_try_turns_first(direction, head) ==
    LET possible_dirs == ALLOWED_TURNS(direction) \o <<direction>>
        allowed(d) == d \in matrix(head[1], head[2]).allowed_turns
    IN  SelectSeq(possible_dirs, allowed)

\* the list possible_dirs filtered by current_cell._allowed_turns
dirs_to_try(direction, head) ==
    LET possible_dirs == <<direction>> \o ALLOWED_TURNS(direction)
        allowed(d) == d \in matrix(head[1], head[2]).allowed_turns
    IN  SelectSeq(possible_dirs, allowed)

\* (next_x, next_y) = (None, None)
NoCell == <<>>

\* the loop over dirs_to_try without the test of the cell type: the first
\* target inside the grid
RECURSIVE next_cell_any_type(_, _)
next_cell_any_type(head, dirs) ==
    IF dirs = <<>> THEN NoCell
    ELSE LET add      == DIR_TO_COORDINATE(Head(dirs))
             new_test == <<head[1] + add[1], head[2] + add[2]>>
         IN  IF ~InGrid(new_test[1], new_test[2])
             THEN next_cell_any_type(head, Tail(dirs))
             ELSE new_test

RECURSIVE next_cell(_, _)
\* the loop over dirs_to_try: the first target that is inside the grid and
\* traversable, or NoCell when the loop ends without a break
next_cell(head, dirs) ==
    IF dirs = <<>> THEN NoCell
    ELSE LET add      == DIR_TO_COORDINATE(Head(dirs))
             new_test == <<head[1] + add[1], head[2] + add[2]>>
         IN  IF ~InGrid(new_test[1], new_test[2])
             THEN next_cell(head, Tail(dirs))
             ELSE IF matrix(new_test[1], new_test[2]).cell_type \in Traversable
             THEN new_test
             ELSE next_cell(head, Tail(dirs))

\* _move_train_one_cell whose else branch leaves the state alone
move_train_one_cell_no_crash(train, positions) ==
    LET head == positions[1]
        next == next_cell(head, dirs_to_try(train.direction, head))
    IN  IF next # NoCell
        THEN [train     |-> [train EXCEPT !.direction =
                               COORDINATE_TO_DIR(<<next[1] - head[1],
                                                   next[2] - head[2]>>)],
              positions |-> push_first(positions, next)]
        ELSE [train |-> train, positions |-> positions]

\* _move_train_one_cell that moves the body and keeps the old direction
move_train_one_cell_old_direction(train, positions) ==
    LET head == positions[1]
        next == next_cell(head, dirs_to_try(train.direction, head))
    IN  IF next # NoCell
        THEN [train     |-> train,
              positions |-> push_first(positions, next)]
        ELSE [train     |-> [train EXCEPT !.state = "CRASHED"],
              positions |-> positions]

\* _move_train_one_cell whose else branch also pushes the head onto the body
\* once more, dropping the tail
move_train_one_cell_fail_shifts(train, positions) ==
    LET head == positions[1]
        next == next_cell(head, dirs_to_try(train.direction, head))
    IN  IF next # NoCell
        THEN [train     |-> [train EXCEPT !.direction =
                               COORDINATE_TO_DIR(<<next[1] - head[1],
                                                   next[2] - head[2]>>)],
              positions |-> push_first(positions, next)]
        ELSE [train     |-> [train EXCEPT !.state = "CRASHED"],
              positions |-> push_first(positions, head)]

\* _move_train_one_cell whose else branch also turns the train to the first
\* of the turns of its heading
move_train_one_cell_fail_turns(train, positions) ==
    LET head == positions[1]
        next == next_cell(head, dirs_to_try(train.direction, head))
    IN  IF next # NoCell
        THEN [train     |-> [train EXCEPT !.direction =
                               COORDINATE_TO_DIR(<<next[1] - head[1],
                                                   next[2] - head[2]>>)],
              positions |-> push_first(positions, next)]
        ELSE [train     |-> [train EXCEPT
                               !.state = "CRASHED",
                               !.direction = ALLOWED_TURNS(train.direction)[1]],
              positions |-> positions]

\* Model._move_train_one_cell: the train and its body after one attempt
move_train_one_cell(train, positions) ==
    LET head == positions[1]
        next == next_cell(head, dirs_to_try(train.direction, head))
    IN  IF next # NoCell
        THEN [train     |-> [train EXCEPT !.direction =
                               COORDINATE_TO_DIR(<<next[1] - head[1],
                                                   next[2] - head[2]>>)],
              positions |-> push_first(positions, next)]
        ELSE [train     |-> [train EXCEPT !.state = "CRASHED"],
              positions |-> positions]

\* the keys Model.__init__ gives sensor_states
SensorCells ==
    {c \in Coordinates : matrix(c[1], c[2]).cell_type = "SENSOR"}

\* Model._get_cells_sensor: TRUE when it returns a cell.  A Python list also
\* takes the negative indices -len .. -1; any other index is an IndexError.
get_cells_sensor(x, y) ==
    LET col == IF x < 0 THEN x + Width ELSE x
        row == IF y < 0 THEN y + Height ELSE y
    IN  /\ col \in 0..(Width - 1)
        /\ row \in 0..(Height - 1)
        /\ matrix(col, row).cell_type = "SENSOR"

\* first half of Model._update_sensor_states
reset_sensors(states) == [c \in DOMAIN states |-> FALSE]

\* the second half looking at the head of each body only
update_sensors_heads_only(states, bodies) ==
    [c \in DOMAIN states |->
        \/ states[c]
        \/ \E i \in DOMAIN bodies :
              bodies[i][1] = c /\ get_cells_sensor(c[1], c[2])]

\* the second half without the test that the cell under the body is a
\* sensor: every coordinate of every body gets an entry that reads true
update_sensors_every_cell(states, bodies) ==
    LET under == {bodies[i][k] : i \in DOMAIN bodies, k \in 1..LENGTH}
    IN  [c \in DOMAIN states \cup under |->
            \/ c \in DOMAIN states /\ states[c]
            \/ c \in under]

\* second half of Model._update_sensor_states
update_sensors(states, bodies) ==
    [c \in DOMAIN states |->
        \/ states[c]
        \/ \E i \in DOMAIN bodies : \E k \in DOMAIN bodies[i] :
              bodies[i][k] = c /\ get_cells_sensor(c[1], c[2])]

\* Model.get_cells_train: the first train whose body holds (x, y); 0 is None
get_cells_train(bodies, x, y) ==
    LET holders == {i \in DOMAIN bodies :
                      \E k \in DOMAIN bodies[i] : bodies[i][k] = <<x, y>>}
    IN  IF holders = {} THEN 0
        ELSE CHOOSE i \in holders : \A j \in holders : i <= j

\* _check_collisions that assigns every train's state afresh: CRASHED when it
\* shares a cell with another train, OK otherwise
check_collisions_afresh(trs, bodies) ==
    LET shares(i) == \E j \in DOMAIN bodies : \E k \in DOMAIN bodies[i] :
                        \E n \in DOMAIN bodies[j] :
                           j # i /\ bodies[i][k] = bodies[j][n]
    IN  [raised |-> FALSE,
         trains |-> [i \in DOMAIN trs |->
                       [trs[i] EXCEPT !.state =
                           IF shares(i) THEN "CRASHED" ELSE "OK"]]]

\* _check_collisions comparing coordinates instead of trains: a body entry
\* collides with any other entry on the same cell, the train's own included
check_collisions_by_entries(trs, bodies) ==
    LET hit == \E i, j \in DOMAIN bodies :
                  \E k \in DOMAIN bodies[i] : \E n \in DOMAIN bodies[j] :
                     <<i, k>> # <<j, n>> /\ bodies[i][k] = bodies[j][n]
    IN  [raised |-> hit, trains |-> trs]

\* _check_collisions that sets CRASHED on every train some coordinate of
\* which is held by a train, without asking whether that train is another one
check_collisions_any_holder(trs, bodies) ==
    [raised |-> FALSE,
     trains |-> [i \in DOMAIN trs |->
                   IF \E k \in DOMAIN bodies[i] :
                         get_cells_train(bodies, bodies[i][k][1],
                                         bodies[i][k][2]) # 0
                   THEN [trs[i] EXCEPT !.state = "CRASHED"]
                   ELSE trs[i]]]

\* Model._check_collisions.  The two assignments read self._TRAIN_CRASH_STATE,
\* an attribute Model does not have: the first pair of distinct trains found
\* on one cell raises AttributeError before any state is assigned.
check_collisions(trs, bodies) ==
    LET hit == \E i \in DOMAIN bodies : \E k \in DOMAIN bodies[i] :
                  LET train_on_cell ==
                        get_cells_train(bodies, bodies[i][k][1], bodies[i][k][2])
                  IN  train_on_cell # 0 /\ train_on_cell # i
    IN  [raised |-> hit, trains |-> trs]

----------------------------------------------------------------------------
(* Construction.                                                           *)

\* __init__ appending one copy per range(_LENGTH) instead of _LENGTH - 1
initial_positions_one_more(start) ==
    <<start>> \o [k \in 1..LENGTH |-> start]

\* the bodies Model.__init__ builds: the start position, then _LENGTH - 1
\* appended copies of it
initial_positions(start) ==
    <<start>> \o [k \in 1..(LENGTH - 1) |-> start]

\* The contents of Model.train_positions explored: each entry is a train's
\* heading and the one position its list starts with.
Layouts ==
    { << [direction |-> "RIGHT", start |-> <<4, 0>>] >>,
      << [direction |-> "DOWN",  start |-> <<3, 0>>] >>,
      << [direction |-> "DOWN",  start |-> <<1, 1>>] >>,
      << [direction |-> "RIGHT", start |-> <<0, 0>>] >>,
      << [direction |-> "RIGHT", start |-> <<2, 0>>],
         [direction |-> "LEFT",  start |-> <<4, 0>>] >> }

\* what tick() has done when it has just been called: no step taken, no move
\* attempted by any train, no failed move, _check_collisions not run
NothingDone(trs) ==
    [steps |-> 0, attempts |-> [i \in DOMAIN trs |-> 0], failed |-> {},
     checks |-> 0]

\* what a step that is no single-cell move leaves in last
Did(op) ==
    [op |-> op, train |-> 0, head |-> <<>>, direction |-> "NONE",
     state |-> "NONE"]

\* the heading assigned to the class attribute, Train.direction = ..., which
\* every train then reads
store_train_on_class(trs, i, train) ==
    [j \in DOMAIN trs |->
        IF j = i THEN train ELSE [trs[j] EXCEPT !.direction = train.direction]]

\* train.direction = ..., train.state = ...: the attributes are set on the
\* instance, so the train at index i is replaced and no other
store_train(trs, i, train) == [trs EXCEPT ![i] = train]

\* a train without the copy of the accelerate flag it was last given: what
\* the engines are compared on and what a tick starts from
Untagged(train) ==
    [direction |-> train.direction, state |-> train.state, speed |-> train.speed]

AllUntagged(trs) == [i \in DOMAIN trs |-> Untagged(trs[i])]

\* accelerate_tick of a train kept without its flag, given the flag
accelerate_with(train, flag) ==
    Untagged(accelerate_tick([direction       |-> train.direction,
                              state           |-> train.state,
                              is_accelerating |-> flag,
                              speed           |-> train.speed]))

----------------------------------------------------------------------------
(* The short-circuit engine: tick() with the move step skipped for every   *)
(* train whose state is CRASHED, everything else as in Model.              *)

sc_move_train_one_cell(train, positions) ==
    IF train.state = "CRASHED"
    THEN [train |-> train, positions |-> positions]
    ELSE move_train_one_cell(train, positions)

RECURSIVE sc_move_loop(_, _, _)
sc_move_loop(train, positions, n) ==
    IF n = 0
    THEN [train |-> train, positions |-> positions]
    ELSE LET r == sc_move_train_one_cell(train, positions)
         IN  sc_move_loop(r.train, r.positions, n - 1)

\* _move_train_tick of one train, with the flag value the tick read for it
sc_move_train_tick(train, positions, flag) ==
    LET r == sc_move_loop(train, positions, get_rounded_speed(train))
    IN  [train     |-> accelerate_with(r.train, flag),
         positions |-> r.positions]

\* one whole tick() of the short-circuit engine e; flags[i] is the value of
\* the accelerate flag read for train i.  An engine that raised stays as it is.
sc_tick(e, flags) ==
    IF e.raised THEN e
    ELSE LET r(i) == sc_move_train_tick(e.trains[i], e.train_positions[i],
                                        flags[i])
             trs == [i \in DOMAIN e.trains |-> r(i).train]
             bodies == [i \in DOMAIN e.trains |-> r(i).positions]
             c == check_collisions(trs, bodies)
         IN  [trains          |-> c.trains,
              train_positions |-> bodies,
              sensor_states   |-> update_sensors(reset_sensors(e.sensor_states),
                                                 bodies),
              raised          |-> c.raised]

----------------------------------------------------------------------------

\* the engines and the records of the run start from the constructed Model
InitHistory ==
    /\ begin = [trains          |-> AllUntagged(trains),
                train_positions |-> train_positions]
    /\ log = NothingDone(trains)
    /\ sc = [trains          |-> AllUntagged(trains),
             train_positions |-> train_positions,
             sensor_states   |-> sensor_states,
             raised          |-> FALSE]

\* Model() with the trains of one of the given layouts
Construct(layouts) ==
    /\ \E layout \in layouts :
          /\ trains = [i \in DOMAIN layout |-> NewTrain(layout[i].direction)]
          /\ train_positions =
                [i \in DOMAIN layout |-> initial_positions(layout[i].start)]
    /\ sensor_states = [c \in SensorCells |-> FALSE]
    /\ is_accelerating = FALSE
    /\ pc = "idle"
    /\ cur = 0
    /\ left = 0
    /\ ticks = 0
    /\ last = Did("init")
    /\ frame = [drawn |-> FALSE, mid_tick |-> FALSE, sensors_ok |-> TRUE]
    /\ InitHistory

Init == Construct(Layouts)

----------------------------------------------------------------------------
(* The simulation loop: tick() step by step.                               *)

\* tick() is called and _move_train_tick starts on the first train
BeginTick ==
    /\ pc = "idle"
    /\ ticks < MaxTicks
    /\ ticks' = ticks + 1
    /\ cur' = 1
    /\ left' = get_rounded_speed(trains[1])
    /\ pc' = "move"
    /\ last' = Did("begin")
    /\ begin' = [trains          |-> AllUntagged(trains),
                 train_positions |-> train_positions]
    /\ log' = [NothingDone(trains) EXCEPT !.steps = 1]
    /\ UNCHANGED <<trains, train_positions, sensor_states, is_accelerating,
                   frame, sc>>

\* one iteration of the loop of _move_train_tick
MoveTrainOneCell ==
    /\ pc = "move"
    /\ left > 0
    /\ LET r == move_train_one_cell(trains[cur], train_positions[cur])
           moved == r.train.state = trains[cur].state
                    /\ r.positions[1] # train_positions[cur][1]
       IN  /\ trains' = store_train(trains, cur, r.train)
           /\ train_positions' = [train_positions EXCEPT ![cur] = r.positions]
           /\ log' = [log EXCEPT !.steps = @ + 1,
                                 !.attempts[cur] = @ + 1,
                                 !.failed = IF moved THEN @ ELSE @ \cup {cur}]
           /\ last' = [op        |-> IF moved THEN "moved" ELSE "blocked",
                       train     |-> cur,
                       head      |-> train_positions[cur][1],
                       direction |-> trains[cur].direction,
                       state     |-> trains[cur].state]
    /\ left' = left - 1
    /\ UNCHANGED <<sensor_states, is_accelerating, pc, cur, ticks, frame,
                   begin, sc>>

\* train.is_accelerating = self.is_accelerating; train.accelerate_tick()
AccelerateTick ==
    /\ pc = "move"
    /\ left = 0
    /\ trains' = [trains EXCEPT ![cur] =
                    accelerate_tick([@ EXCEPT !.is_accelerating = is_accelerating])]
    /\ pc' = "reset"
    /\ last' = Did("accelerate")
    /\ log' = [log EXCEPT !.steps = @ + 1]
    /\ UNCHANGED <<train_positions, sensor_states, is_accelerating, cur, left,
                   ticks, frame, begin, sc>>

\* _update_sensor_states, the loop that resets every sensor
ResetSensors ==
    /\ pc = "reset"
    /\ sensor_states' = reset_sensors(sensor_states)
    /\ pc' = "update"
    /\ last' = Did("reset")
    /\ log' = [log EXCEPT !.steps = @ + 1]
    /\ UNCHANGED <<trains, train_positions, is_accelerating, cur, left, ticks,
                   frame, begin, sc>>

\* _update_sensor_states, the loop over the bodies; then tick() goes on to the
\* next train, or to _check_collisions after the last one
UpdateSensors ==
    /\ pc = "update"
    /\ sensor_states' = update_sensors(sensor_states, train_positions)
    /\ IF cur < Len(trains)
       THEN /\ cur' = cur + 1
            /\ left' = get_rounded_speed(trains[cur + 1])
            /\ pc' = "move"
       ELSE /\ pc' = "collide"
            /\ UNCHANGED <<cur, left>>
    /\ last' = Did("update")
    /\ log' = [log EXCEPT !.steps = @ + 1]
    /\ UNCHANGED <<trains, train_positions, is_accelerating, ticks, frame,
                   begin, sc>>

\* _check_collisions; tick() returns, or the exception ends the thread
CheckCollisions ==
    /\ pc = "collide"
    /\ LET r == check_collisions(trains, train_positions)
       IN  /\ trains' = r.trains
           /\ pc' = IF r.raised THEN "raised" ELSE "idle"
    /\ last' = Did("collide")
    /\ log' = [log EXCEPT !.steps = @ + 1, !.checks = @ + 1]
    /\ sc' = sc_tick(sc, [i \in DOMAIN trains |-> trains[i].is_accelerating])
    /\ UNCHANGED <<train_positions, sensor_states, is_accelerating, cur, left,
                   ticks, frame, begin>>

----------------------------------------------------------------------------
(* The render/input loop.                                                  *)

\* controller.handle_events(): the accelerate flag is toggled
ToggleAccelerate ==
    /\ is_accelerating' = ~is_accelerating
    /\ UNCHANGED <<trains, train_positions, sensor_states, pc, cur, left,
                   ticks, last, frame, history>>

\* view.draw(): the frame is read from the engine as it is now
Draw ==
    /\ frame' = [drawn      |-> TRUE,
                 mid_tick   |-> pc \notin {"idle", "raised"},
                 sensors_ok |-> sensor_states =
                     update_sensors(reset_sensors(sensor_states),
                                    train_positions)]
    /\ UNCHANGED <<trains, train_positions, sensor_states, is_accelerating,
                   pc, cur, left, ticks, last, history>>

----------------------------------------------------------------------------

Tick ==
    \/ BeginTick
    \/ MoveTrainOneCell
    \/ AccelerateTick
    \/ ResetSensors
    \/ UpdateSensors
    \/ CheckCollisions

Next == Tick \/ ToggleAccelerate

Spec == Init /\ [][Next]_vars

NextLoops == Next \/ Draw

SpecLoops == Init /\ [][NextLoops]_vars

----------------------------------------------------------------------------
(* The acceleration scenario: one train on a straight stretch of track,    *)
(* the accelerate flag true for the first ScenarioAccelTicks ticks and     *)
(* false afterwards.                                                       *)

\* starts on row 0, whose track cells (1, 0)..(5, 0) lie in one line
ScenarioLayouts ==
    { << [direction |-> "RIGHT", start |-> <<1, 0>>] >>,
      << [direction |-> "RIGHT", start |-> <<2, 0>>] >>,
      << [direction |-> "LEFT",  start |-> <<5, 0>>] >> }

InitScenario == Construct(ScenarioLayouts)

\* the value the scenario gives the flag for the tick that comes next
ScenarioFlag == ticks < ScenarioAccelTicks

\* the input loop sets the flag between two ticks
ScenarioInput ==
    /\ pc = "idle"
    /\ is_accelerating # ScenarioFlag
    /\ ToggleAccelerate

ScenarioBeginTick ==
    /\ is_accelerating = ScenarioFlag
    /\ BeginTick

NextScenario ==
    \/ ScenarioInput
    \/ ScenarioBeginTick
    \/ MoveTrainOneCell
    \/ AccelerateTick
    \/ ResetSensors
    \/ UpdateSensors
    \/ CheckCollisions

SpecScenario == InitScenario /\ [][NextScenario]_vars

----------------------------------------------------------------------------
(* The layouts of Layouts and, beside them, two trains on the loop of ten  *)
(* cells through (3, 0), (1, 0), (1, 2) and (4, 2), half a loop apart and  *)
(* both running anticlockwise.  The input loop toggles the flag between    *)
(* two ticks only, so that the trains of one tick are given one value.     *)

ChaseLayouts ==
    Layouts
    \cup { << [direction |-> "RIGHT", start |-> <<3, 2>>],
              [direction |-> "LEFT",  start |-> <<2, 0>>] >> }

InitChase == Construct(ChaseLayouts)

ToggleBetweenTicks ==
    /\ pc = "idle"
    /\ ToggleAccelerate

NextChase == Tick \/ ToggleBetweenTicks

SpecChase == InitChase /\ [][NextChase]_vars

----------------------------------------------------------------------------
(* A Train on its own: accelerate_tick() called with any flag values.      *)

InitTrain ==
    /\ trains = <<NewTrain("LEFT")>>
    /\ train_positions = <<>>
    /\ sensor_states = [c \in SensorCells |-> FALSE]
    /\ is_accelerating = FALSE
    /\ pc = "train"
    /\ cur = 1
    /\ left = 0
    /\ ticks = 0
    /\ last = Did("init")
    /\ frame = [drawn |-> FALSE, mid_tick |-> FALSE, sensors_ok |-> TRUE]
    /\ InitHistory

\* train.is_accelerating = flag; train.accelerate_tick().  last tells whether
\* the sum left [0, _MAX_SPEED] before the clamp.
TrainAccelerateTick ==
    /\ pc = "train"
    /\ ticks < MaxTrainTicks
    /\ \E flag \in BOOLEAN :
          LET before == trains[1].speed
              sum == IF flag
                     THEN FloatAdd(before, DoubleOfTenths(ACCELERATION))
                     ELSE FloatSub(before, DoubleOfTenths(DEACCELERATION))
          IN  /\ trains' = [trains EXCEPT ![1] =
                    accelerate_tick([@ EXCEPT !.is_accelerating = flag])]
              /\ last' = Did(IF SpeedAbove(sum, MAX_SPEED * Tenths) THEN "above"
                             ELSE IF ~SpeedAtLeast(sum, 0) THEN "below"
                             ELSE "within")
    /\ ticks' = ticks + 1
    /\ UNCHANGED <<train_positions, sensor_states, is_accelerating, pc, cur,
                   left, frame, history>>

NextTrain == TrainAccelerateTick

SpecTrain == InitTrain /\ [][NextTrain]_vars

----------------------------------------------------------------------------
(* Vocabulary of the properties.                                           *)

\* the step taken is a single-cell move attempt of train cur
MoveStep == pc = "move" /\ left > 0 /\ left' = left - 1

\* the cell reached from head by one step in direction d
Ahead(head, d) ==
    <<head[1] + DIR_TO_COORDINATE(d)[1], head[2] + DIR_TO_COORDINATE(d)[2]>>

\* heading d is permitted on the cell at head and leads to a traversable cell
\* inside the grid
Passes(head, d) ==
    /\ d \in CellAllowedTurns(head[1], head[2])
    /\ Ahead(head, d)[1] \in 0..(Width - 1)
    /\ Ahead(head, d)[2] \in 0..(Height - 1)
    /\ MapRows[Ahead(head, d)[2] + 1][Ahead(head, d)[1] + 1] # "EMPTY"

\* the turns reachable from heading d, as a set
Turns(d) == {ALLOWED_TURNS(d)[k] : k \in DOMAIN ALLOWED_TURNS(d)}

\* no candidate heading of a train at head with heading d passes
DeadEnd(head, d) == \A c \in {d} \cup Turns(d) : ~Passes(head, c)

\* two bodies have a coordinate in common
Overlap(a, b) == \E k \in DOMAIN a : \E n \in DOMAIN b : a[k] = b[n]

\* some body lies on coordinate c
Occupied(c) ==
    \E i \in DOMAIN train_positions : \E k \in DOMAIN train_positions[i] :
       train_positions[i][k] = c

\* tick() has been called and is over: it returned or it raised
TickOver == ticks > 0 /\ pc \in {"idle", "raised"}

----------------------------------------------------------------------------
(* C1: every train's body has exactly _LENGTH entries, after construction  *)
(* and in every later state, whether its moves succeed or fail.            *)
BodyLengthInvariant ==
    \A i \in DOMAIN train_positions :
       /\ Len(train_positions[i]) = LENGTH
       /\ ticks = 0 =>
             \A k \in DOMAIN train_positions[i] :
                train_positions[i][k] = train_positions[i][1]

\* a tick boundary with a train that has both moved and failed to move
BodyLengthWitness ==
    /\ pc = "idle" /\ ticks > 0
    /\ \E i \in DOMAIN trains :
          /\ trains[i].state = "CRASHED"
          /\ train_positions[i][1] # train_positions[i][LENGTH]

(* C2: when tick() is over, any two distinct trains that share a body      *)
(* coordinate are both CRASHED.                                            *)
SymmetricCollision ==
    TickOver =>
       \A i, j \in DOMAIN trains :
          (i # j /\ Overlap(train_positions[i], train_positions[j]))
             => (trains[i].state = "CRASHED" /\ trains[j].state = "CRASHED")

(* C3: when tick() is over, a sensor reads true exactly when some train's  *)
(* body lies on it.                                                        *)
SensorSoundness ==
    TickOver =>
       /\ DOMAIN sensor_states = SensorCells
       /\ \A c \in SensorCells : sensor_states[c] <=> Occupied(c)

\* a tick boundary with one sensor under a train's tail, not its head, and
\* the other sensor free
SensorSoundnessWitness ==
    /\ TickOver
    /\ \E c \in SensorCells :
          /\ sensor_states[c]
          /\ \A i \in DOMAIN train_positions : train_positions[i][1] # c
    /\ \E c \in SensorCells : ~sensor_states[c]

(* C4: a train that is CRASHED stays CRASHED in every later state.         *)
StatusOneWay ==
    [][\A i \in DOMAIN trains :
          trains[i].state = "CRASHED" => trains'[i].state = "CRASHED"]_vars

\* the latest step was a move attempted on a train already CRASHED, and the
\* train is CRASHED still
StatusOneWayWitness ==
    /\ last.op = "blocked"
    /\ last.state = "CRASHED"
    /\ trains[last.train].state = "CRASHED"

(* C5: no tick() ends in an exception: dead ends, targets outside the grid *)
(* and overlaps of distinct trains never abort the tick.                   *)
TickNeverRaises == pc # "raised"

(* C6: a single-cell move of a train none of whose candidate headings      *)
(* passes sets its state to CRASHED and leaves its body and heading as     *)
(* they were.                                                              *)
CrashOnDeadEnd ==
    [][(MoveStep /\ DeadEnd(train_positions[cur][1], trains[cur].direction))
          => /\ trains'[cur].state = "CRASHED"
             /\ train_positions'[cur] = train_positions[cur]
             /\ trains'[cur].direction = trains[cur].direction]_vars

\* the latest step was a failed move of a train that was OK, at the edge of
\* the grid
CrashOnDeadEndWitness ==
    /\ last.op = "blocked"
    /\ last.state = "OK"
    /\ DeadEnd(last.head, last.direction)
    /\ Ahead(last.head, last.direction)[1] >= Width
    /\ trains[last.train].state = "CRASHED"

(* C7: a single-cell move goes straight ahead whenever the current heading *)
(* passes, even if a turn passes too; otherwise it takes the first turn,   *)
(* in ALLOWED_TURNS order, that passes.                                    *)
StraightPreference ==
    [][MoveStep =>
          LET head  == train_positions[cur][1]
              d     == trains[cur].direction
              turns == ALLOWED_TURNS(d)
          IN  /\ Passes(head, d) => train_positions'[cur][1] = Ahead(head, d)
              /\ \A k \in DOMAIN turns :
                    (/\ ~Passes(head, d)
                     /\ Passes(head, turns[k])
                     /\ \A j \in 1..(k - 1) : ~Passes(head, turns[j]))
                       => train_positions'[cur][1] = Ahead(head, turns[k])]_vars

\* the latest step moved a train straight ahead from a cell where a turn
\* passed as well
StraightPreferenceWitness ==
    /\ last.op = "moved"
    /\ Passes(last.head, last.direction)
    /\ \E c \in Turns(last.direction) : Passes(last.head, c)
    /\ train_positions[last.train][1] = Ahead(last.head, last.direction)

(* C8: a single-cell move that has a passing candidate puts the target in  *)
(* front of the body and drops the body's last entry, sets the heading to  *)
(* the one whose delta is (new head - old head), and keeps the state.      *)
SuccessfulMove ==
    [][(MoveStep /\ ~DeadEnd(train_positions[cur][1], trains[cur].direction))
          => LET old  == train_positions[cur]
                 new  == train_positions'[cur]
             IN  /\ \E d \in {trains[cur].direction}
                                \cup Turns(trains[cur].direction) :
                       /\ Passes(old[1], d)
                       /\ new[1] = Ahead(old[1], d)
                 /\ Len(new) = Len(old)
                 /\ \A k \in 2..Len(new) : new[k] = old[k - 1]
                 /\ DIR_TO_COORDINATE(trains'[cur].direction)
                       = <<new[1][1] - old[1][1], new[1][2] - old[1][2]>>
                 /\ trains'[cur].state = trains[cur].state]_vars

\* the latest step moved a train round a corner: its heading changed and its
\* body holds three different cells
SuccessfulMoveWitness ==
    /\ last.op = "moved"
    /\ trains[last.train].direction # last.direction
    /\ train_positions[last.train][2] = last.head
    /\ train_positions[last.train][3] # last.head
    /\ train_positions[last.train][1] # train_positions[last.train][3]

(* C9: a train's speed is never below 0 nor above _MAX_SPEED, whatever     *)
(* the sequence of accelerate-flag values.                                 *)
BoundedSpeed ==
    \A i \in DOMAIN trains :
       /\ trains[i].speed.t \in 0..(MAX_SPEED * Tenths)
       /\ trains[i].speed.t = 0 => trains[i].speed.d >= 0
       /\ trains[i].speed.t = MAX_SPEED * Tenths => trains[i].speed.d <= 0

\* the latest accelerate_tick() cut a sum above _MAX_SPEED down to it
BoundedSpeedWitness ==
    /\ last.op = "above"
    /\ trains[1].is_accelerating
    /\ trains[1].speed = [t |-> MAX_SPEED * Tenths, d |-> 0]

(* C10: the render loop reads the engine's state only between ticks, never *)
(* from the middle of a tick().                                            *)
FramesAtTickBoundary == ~frame.mid_tick


----------------------------------------------------------------------------
(* C11: when a tick() is over, every train has been given the same value   *)
(* of the accelerate flag before its accelerate_tick(), whenever the input *)
(* loop toggled the flag.                                                  *)

UniformAcceleration ==
    TickOver =>
       \A i, j \in DOMAIN trains :
          trains[i].is_accelerating = trains[j].is_accelerating

----------------------------------------------------------------------------
(* C12: _check_collisions never acts on a train because of its own body:   *)
(* a train that shares no coordinate with another train keeps its state    *)
(* across _check_collisions, and when no two trains share a coordinate the *)
(* collision branch is not entered at all, however many coordinates a body *)
(* repeats.                                                                *)

\* train i shares no coordinate with any other train
Alone(i) ==
    \A j \in DOMAIN train_positions :
       j # i => ~Overlap(train_positions[i], train_positions[j])

\* some coordinate occurs twice in the body of train i
RepeatsACell(i) ==
    \E k, n \in DOMAIN train_positions[i] :
       k # n /\ train_positions[i][k] = train_positions[i][n]

NoSelfCrash ==
    [][pc = "collide" /\ pc' # "collide" =>
          /\ \A i \in DOMAIN trains :
                Alone(i) => trains'[i].state = trains[i].state
          /\ (\A i \in DOMAIN trains : Alone(i)) => pc' = "idle"]_vars

\* _check_collisions has returned with two trains on the grid, one of them
\* with a body that has moved and still repeats its start cell
NoSelfCrashWitness ==
    /\ last.op = "collide"
    /\ pc = "idle"
    /\ Len(trains) = 2
    /\ \E i \in DOMAIN trains :
          /\ RepeatsACell(i)
          /\ train_positions[i][1] # train_positions[i][LENGTH]
    /\ \A i \in DOMAIN trains : Alone(i)

----------------------------------------------------------------------------
(* C13: in the acceleration scenario the speed, counted in tenths, rises   *)
(* by _ACCELERATION in each of the first ScenarioAccelTicks ticks and      *)
(* falls by _DEACCELERATION in each later one, clamped to [0, _MAX_SPEED]; *)
(* in every tick the head advances along the heading by the speed the tick *)
(* started with, truncated; the body keeps _LENGTH entries, the heading    *)
(* stays and the train is never CRASHED.                                   *)

\* the integer part of speed s
Truncated(s) ==
    CHOOSE k \in 0..MAX_SPEED :
       SpeedAtLeast(s, k * Tenths) /\ ~SpeedAtLeast(s, (k + 1) * Tenths)

\* the speed in tenths the scenario prescribes after n ticks
RECURSIVE ScenarioTenths(_)
ScenarioTenths(n) ==
    IF n = 0 THEN 0
    ELSE IF n <= ScenarioAccelTicks
    THEN IF ScenarioTenths(n - 1) + ACCELERATION > MAX_SPEED * Tenths
         THEN MAX_SPEED * Tenths
         ELSE ScenarioTenths(n - 1) + ACCELERATION
    ELSE IF ScenarioTenths(n - 1) < DEACCELERATION
         THEN 0
         ELSE ScenarioTenths(n - 1) - DEACCELERATION

\* the cell n steps from head in direction d
AheadBy(head, d, n) ==
    <<head[1] + n * DIR_TO_COORDINATE(d)[1],
      head[2] + n * DIR_TO_COORDINATE(d)[2]>>

AccelerationScenario ==
    \A i \in DOMAIN trains :
       /\ Len(train_positions[i]) = LENGTH
       /\ trains[i].state = "OK"
       /\ trains[i].direction = begin.trains[i].direction
       /\ pc = "idle" =>
             /\ trains[i].speed.t = ScenarioTenths(ticks)
             /\ train_positions[i][1] =
                   AheadBy(begin.train_positions[i][1], trains[i].direction,
                           Truncated(begin.trains[i].speed))

\* a tick of the decelerating phase has moved the head by one cell
AccelerationScenarioWitness ==
    /\ pc = "idle"
    /\ ticks > ScenarioAccelTicks
    /\ ~is_accelerating
    /\ Truncated(begin.trains[1].speed) = 1
    /\ train_positions[1][1] # begin.train_positions[1][1]
    /\ train_positions[1][2] = begin.train_positions[1][1]

----------------------------------------------------------------------------
(* C14: run beside Model from the same construction and given the same     *)
(* flag values, the engine that skips the moves of CRASHED trains has, at  *)
(* every tick boundary, the same bodies, headings, states, speeds and      *)
(* sensor registry as Model, and has raised exactly when Model has.        *)

----------------------------------------------------------------------------
(* C15: a train is CRASHED once one of its move attempts has failed; from  *)
(* then on no step changes its body or its heading, and every further move *)
(* attempt it makes, in the same tick or a later one, fails as well.       *)

DeadEndPermanent ==
    [][\A i \in DOMAIN trains :
          trains[i].state = "CRASHED" =>
             /\ train_positions'[i] = train_positions[i]
             /\ trains'[i].direction = trains[i].direction
             /\ (MoveStep /\ cur = i) => i \in log'.failed]_vars

\* a train that was already CRASHED has just failed its second attempt of
\* one tick
DeadEndPermanentWitness ==
    /\ last.op = "blocked"
    /\ last.state = "CRASHED"
    /\ log.attempts[last.train] >= 2
    /\ DeadEnd(train_positions[last.train][1], trains[last.train].direction)

----------------------------------------------------------------------------
(* C16: every tick() ends after a bounded number of steps.  While it runs  *)
(* some step of it can be taken, and the steps taken plus the steps the    *)
(* rest of the tick can take at most stay below a fixed number; each train *)
(* attempts exactly as many moves as the truncation of the speed it had    *)
(* when the tick started, at most _MAX_SPEED, whatever accelerate_tick     *)
(* makes of the speed during the tick; _check_collisions runs exactly      *)
(* once, when every train has made all its attempts.                       *)

\* tick() is running
InTick == pc \in {"move", "reset", "update", "collide"}

\* the steps a running tick() still has to take before _check_collisions
\* are at most TickRank
TickRank ==
    (Len(trains) - cur) * (MAX_SPEED + 3)
    + (CASE pc = "move"    -> 3 + left
         [] pc = "reset"   -> 2
         [] pc = "update"  -> 1
         [] OTHER          -> 0)

\* the guard of one of the steps of a running tick() holds
CanStep ==
    /\ cur \in DOMAIN trains
    /\ \/ pc = "move" /\ left > 0
       \/ pc = "move" /\ left = 0
       \/ pc = "reset"
       \/ pc = "update"
       \/ pc = "collide"

\* the steps of a whole tick(): the call, for each train its moves and the
\* three steps after them, and _check_collisions
RECURSIVE TickSteps(_)
TickSteps(n) ==
    IF n = 0 THEN 2
    ELSE TickSteps(n - 1) + Truncated(begin.trains[n].speed) + 3

TickBounded ==
    /\ \A i \in DOMAIN trains :
          /\ Truncated(begin.trains[i].speed) <= MAX_SPEED
          /\ log.attempts[i] <= Truncated(begin.trains[i].speed)
          /\ (log.checks > 0 \/ pc = "collide" \/ i < cur) =>
                log.attempts[i] = Truncated(begin.trains[i].speed)
    /\ log.checks <= 1
    /\ log.checks = 1 <=> TickOver
    /\ TickOver => log.steps = TickSteps(Len(trains))
    /\ InTick =>
          /\ CanStep
          /\ TickRank >= 0
          /\ log.steps + TickRank < 2 + Len(trains) * (MAX_SPEED + 3)

\* a tick is over in which a train made one move, as the speed it started
\* with prescribes, and left with a speed that prescribes more
TickBoundedWitness ==
    /\ TickOver
    /\ log.checks = 1
    /\ \E i \in DOMAIN trains :
          /\ log.attempts[i] = 1
          /\ Truncated(begin.trains[i].speed) = 1
          /\ Truncated(trains[i].speed) = 2

----------------------------------------------------------------------------
(* C17: in every state the keys of sensor_states are exactly the           *)
(* coordinates of the SENSOR cells of the grid and the values are          *)
(* booleans; whenever _update_sensor_states has just run, each value says  *)
(* whether some body lies on the sensor now, whatever the registry held    *)
(* before and in whatever order the trains are kept.                       *)

\* the coordinates of the grid whose cell is a sensor
SensorCoordinates ==
    {c \in (0..(Width - 1)) \X (0..(Height - 1)) :
        MapRows[c[2] + 1][c[1] + 1] = "SENSOR"}

SensorDomainFixed ==
    /\ DOMAIN sensor_states = SensorCoordinates
    /\ \A c \in DOMAIN sensor_states : sensor_states[c] \in BOOLEAN
    /\ last.op = "update" =>
          \A c \in SensorCoordinates : sensor_states[c] = Occupied(c)

\* _update_sensor_states has just run and left one sensor true and one
\* false, and the sensor that is false lay under a body when the tick began
SensorDomainFixedWitness ==
    /\ last.op = "update"
    /\ \E c \in SensorCoordinates : sensor_states[c]
    /\ \E c \in SensorCoordinates :
          /\ ~sensor_states[c]
          /\ \E i \in DOMAIN trains : \E k \in 1..LENGTH :
                begin.train_positions[i][k] = c

----------------------------------------------------------------------------
(* C18: a step changes the body or the heading of a train only if it is a  *)
(* single-cell move step of that train; a move step of one train leaves    *)
(* every other train's body, heading, speed and state as they were; no     *)
(* step of tick() changes the accelerate flag.                             *)

\* the step taken is a step of tick()
TickStep == log' # log

FrameOfTickSteps ==
    [][/\ \A i \in DOMAIN trains :
             (\/ train_positions'[i] # train_positions[i]
              \/ trains'[i].direction # trains[i].direction)
                => (MoveStep /\ cur = i)
       /\ MoveStep =>
             \A i \in DOMAIN trains \ {cur} :
                /\ trains'[i] = trains[i]
                /\ train_positions'[i] = train_positions[i]
       /\ TickStep => is_accelerating' = is_accelerating]_vars

\* the second of two trains has just moved by a cell, and the first train,
\* which has another heading, has moved before it
FrameOfTickStepsWitness ==
    /\ last.op = "moved"
    /\ Len(trains) = 2
    /\ last.train = 2
    /\ trains[2].direction # trains[1].direction
    /\ train_positions[1][1] # train_positions[1][2]

----------------------------------------------------------------------------
(* C19: a train that was OK when a tick began is CRASHED when the tick is  *)
(* over only if one of its own move attempts of that tick failed or its    *)
(* body shares a coordinate with another train's body at the end of the    *)
(* tick.  Trains whose bodies overlap only between the moves of one tick   *)
(* both stay OK.                                                           *)

NoSpuriousCrash ==
    TickOver =>
       \A i \in DOMAIN trains :
          (begin.trains[i].state = "OK" /\ trains[i].state = "CRASHED") =>
             \/ i \in log.failed
             \/ \E j \in DOMAIN trains :
                   j # i /\ Overlap(train_positions[i], train_positions[j])

\* a tick has returned in which the first train moved onto a cell the second
\* train still lay on, and the second train then moved off it: the bodies
\* were apart when the tick began and are apart now, and both trains are OK
NoSpuriousCrashWitness ==
    /\ TickOver
    /\ pc = "idle"
    /\ Len(trains) = 2
    /\ ~Overlap(begin.train_positions[1], begin.train_positions[2])
    /\ Overlap(train_positions[1], begin.train_positions[2])
    /\ ~Overlap(train_positions[1], train_positions[2])
    /\ trains[1].state = "OK"
    /\ trains[2].state = "OK"

----------------------------------------------------------------------------
(* C20: with every start position inside the grid, in every reachable      *)
(* state every coordinate of every body lies inside the grid, the cell a   *)
(* move has just entered is a TRACK, SWITCH_LEFT, SWITCH_RIGHT or SENSOR   *)
(* cell, and two consecutive coordinates of a body are equal or one step   *)
(* of a heading apart.                                                     *)

\* the steps of the four headings
HeadingDeltas == {<<0, 0 - 1>>, <<0, 1>>, <<0 - 1, 0>>, <<1, 0>>}

BodiesOnTrack ==
    /\ \A i \in DOMAIN train_positions :
          /\ \A k \in DOMAIN train_positions[i] :
                /\ train_positions[i][k][1] \in 0..(Width - 1)
                /\ train_positions[i][k][2] \in 0..(Height - 1)
          /\ \A k \in 1..(Len(train_positions[i]) - 1) :
                \/ train_positions[i][k] = train_positions[i][k + 1]
                \/ <<train_positions[i][k][1] - train_positions[i][k + 1][1],
                     train_positions[i][k][2] - train_positions[i][k + 1][2]>>
                      \in HeadingDeltas
    /\ last.op = "moved" =>
          MapRows[train_positions[last.train][1][2] + 1]
                 [train_positions[last.train][1][1] + 1]
             \in {"TRACK", "SWITCH_LEFT", "SWITCH_RIGHT", "SENSOR"}

\* a train that started on a cell that is no track has just moved a second
\* time: its body lies over three cells, the last of them not traversable
BodiesOnTrackWitness ==
    /\ last.op = "moved"
    /\ \E i \in DOMAIN trains :
          /\ last.train = i
          /\ MapRows[train_positions[i][LENGTH][2] + 1]
                    [train_positions[i][LENGTH][1] + 1] = "EMPTY"
          /\ train_positions[i][1] # train_positions[i][2]
          /\ train_positions[i][2] # train_positions[i][3]
          /\ train_positions[i][3] = train_positions[i][LENGTH]

============================================================================
